---- MODULE Spec2Model ----
(***************************************************************************)
(* DocumentTools (edit-site header toolbar): the render decisions of the   *)
(* component and the handlers behind its three toggles, as a state machine *)
(* over the store the component selects from and dispatches to.            *)
(*                                                                         *)
(* JavaScript values that may be undefined are strings "true", "false",    *)
(* "undefined"; values the code only ever produces as booleans are         *)
(* BOOLEAN.                                                                *)
(***************************************************************************)
EXTENDS Integers, Sequences, FiniteSets

VARIABLES
    inserterOpen,      \* editSiteStore: isInserterOpened()
    listViewOpen,      \* editSiteStore: isListViewOpened()
    editorMode,        \* editSiteStore: getEditorMode()
    deviceType,        \* editSiteStore: __experimentalGetPreviewDeviceType()
    blockMode,         \* blockEditorStore editor mode, handed down as the blockEditorMode prop
    fixedToolbar,      \* preferencesStore: get( 'core/edit-site', 'fixedToolbar' )
    viewport,          \* useViewportMatch( 'medium' )
    distractionFree,   \* the isDistractionFree prop
    experimentFlag,    \* window.__experimentalEnableZoomedOutView
    rendered,          \* the values captured by the last render of the component
    handler,           \* the handler that ran in the last step, "none" after any other step
    calls,             \* what that handler called, in call order
    trace              \* the latest handler invocations since the last change from outside: the store before, the value captured

vars == <<inserterOpen, listViewOpen, editorMode, deviceType, blockMode,
          fixedToolbar, viewport, distractionFree, experimentFlag,
          rendered, handler, calls, trace>>

JsValues == {"true", "false", "undefined"}
EditorModes == {"visual", "text"}
BlockEditorModes == {"edit", "zoom-out", "navigation"}
DeviceTypes == {"Desktop", "Tablet", "Mobile"}

Truthy(v) == v = "true"

Js(b) == IF b THEN "true" ELSE "false"

\* JavaScript's a && b: a when a is falsy, else b.
JsAnd(a, b) == IF Truthy(a) THEN b ELSE a

(***************************************************************************)
(* The render: what useSelect, useViewportMatch and the props give the     *)
(* function body on one run of it.                                         *)
(***************************************************************************)
useSelect ==
    [ isInserterOpen    |-> inserterOpen,
      isListViewOpen    |-> listViewOpen,
      isVisualMode      |-> (editorMode = "visual"),
      hasFixedToolbar   |-> fixedToolbar,
      isLargeViewport   |-> viewport,
      blockEditorMode   |-> blockMode,
      isDistractionFree |-> distractionFree,
      experimentFlag    |-> experimentFlag ]

\* Variant: the experiment flag alone, whatever the editor mode.
isZoomedOutViewExperimentEnabled_flagOnly(r) == r.experimentFlag

isZoomedOutViewExperimentEnabled(r) ==
    JsAnd(r.experimentFlag, Js(r.isVisualMode))

isZoomedOutView(r) == r.blockEditorMode = "zoom-out"

\* Variant: the inserter button kept in distraction-free mode.
InserterRendered_always(r) == TRUE

InserterRendered(r) == ~r.isDistractionFree

InserterDisabled(r) == ~r.isVisualMode

InserterExpanded(r) == r.isInserterOpen

ToolSelectorRendered(r) == Truthy(r.isLargeViewport) /\ ~r.hasFixedToolbar

\* Variant: only an explicit false hides the control.
UndoRendered_unlessFalse(r) == r.isLargeViewport # "false"

UndoRendered(r) == Truthy(r.isLargeViewport)

RedoRendered(r) == Truthy(r.isLargeViewport)

ListViewRendered(r) == Truthy(r.isLargeViewport) /\ ~r.isDistractionFree

\* Variant: the zoomed-out view does not disable the toggle.
ListViewDisabled_modeOnly(r) == ~r.isVisualMode

ListViewDisabled(r) == ~r.isVisualMode \/ isZoomedOutView(r)

ListViewExpanded(r) == r.isListViewOpen

\* Variant: the toggle kept with a fixed toolbar.
ZoomOutRendered_fixedToolbar(r) ==
    /\ Truthy(r.isLargeViewport)
    /\ Truthy(isZoomedOutViewExperimentEnabled(r))
    /\ ~r.isDistractionFree

ZoomOutRendered(r) ==
    /\ Truthy(r.isLargeViewport)
    /\ Truthy(isZoomedOutViewExperimentEnabled(r))
    /\ ~r.isDistractionFree
    /\ ~r.hasFixedToolbar

(***************************************************************************)
(* The handlers, as the calls they make in order.                          *)
(***************************************************************************)
Call(a, v) == [action |-> a, arg |-> v]

\* Variant: the inserter closed before the focus is moved.
toggleInserter_closeFirst(isInserterOpen) ==
    IF isInserterOpen
    THEN << Call("setIsInserterOpened", "false"), Call("focus", "inserterButton") >>
    ELSE << Call("setIsInserterOpened", "true") >>

\* Variant: the open branch closes nothing.
toggleInserter_focusOnly(isInserterOpen) ==
    IF isInserterOpen
    THEN << Call("focus", "inserterButton") >>
    ELSE << Call("setIsInserterOpened", "true") >>

toggleInserter(isInserterOpen) ==
    IF isInserterOpen
    THEN << Call("focus", "inserterButton"), Call("setIsInserterOpened", "false") >>
    ELSE << Call("setIsInserterOpened", "true") >>

\* Variant: the list view always opened.
toggleListView_open(isListViewOpen) ==
    << Call("setIsListViewOpened", "true") >>

toggleListView(isListViewOpen) ==
    << Call("setIsListViewOpened", Js(~isListViewOpen)) >>

\* Variant: the device type left alone when leaving the zoomed-out view.
zoomOutOnClick_keepDevice(zoomedOut) ==
    IF zoomedOut
    THEN << Call("__unstableSetEditorMode", "edit") >>
    ELSE << Call("setPreviewDeviceType", "Desktop"),
            Call("__unstableSetEditorMode", "zoom-out") >>

\* Variant: the click also closes the inserter.
zoomOutOnClick_closeInserter(zoomedOut) ==
    << Call("setPreviewDeviceType", "Desktop"),
       Call("setIsInserterOpened", "false"),
       Call("__unstableSetEditorMode", IF zoomedOut THEN "edit" ELSE "zoom-out") >>

zoomOutOnClick(zoomedOut) ==
    << Call("setPreviewDeviceType", "Desktop"),
       Call("__unstableSetEditorMode", IF zoomedOut THEN "edit" ELSE "zoom-out") >>

(***************************************************************************)
(* The store: each action sets the value it is named after.                *)
(***************************************************************************)
Store == [ inserterOpen |-> inserterOpen, listViewOpen |-> listViewOpen,
           deviceType |-> deviceType, blockMode |-> blockMode ]

dispatch(s, c) ==
    CASE c.action = "setIsInserterOpened"     -> [s EXCEPT !.inserterOpen = Truthy(c.arg)]
      [] c.action = "setIsListViewOpened"     -> [s EXCEPT !.listViewOpen = Truthy(c.arg)]
      [] c.action = "setPreviewDeviceType"    -> [s EXCEPT !.deviceType = c.arg]
      [] c.action = "__unstableSetEditorMode" -> [s EXCEPT !.blockMode = c.arg]
      [] OTHER                                -> s

RECURSIVE dispatchAll(_, _)
dispatchAll(s, cs) ==
    IF cs = << >> THEN s ELSE dispatchAll(dispatch(s, Head(cs)), Tail(cs))

\* How many handler invocations the history keeps.
MaxTrace == 2

Remember(h, captured) ==
    LET e == [ handler |-> h, before |-> Store, captured |-> captured ]
    IN  IF Len(trace) < MaxTrace THEN Append(trace, e) ELSE Append(Tail(trace), e)

Run(h, cs, captured) ==
    LET s == dispatchAll(Store, cs)
    IN  /\ inserterOpen' = s.inserterOpen
        /\ listViewOpen' = s.listViewOpen
        /\ deviceType' = s.deviceType
        /\ blockMode' = s.blockMode
        /\ handler' = h
        /\ calls' = cs
        /\ trace' = Remember(h, captured)
        /\ UNCHANGED <<editorMode, fixedToolbar, viewport, distractionFree,
                       experimentFlag, rendered>>

ClickInserter ==
    /\ InserterRendered(rendered)
    /\ ~InserterDisabled(rendered)
    /\ Run("toggleInserter", toggleInserter(rendered.isInserterOpen),
           rendered.isInserterOpen)

ClickListView ==
    /\ ListViewRendered(rendered)
    /\ ~ListViewDisabled(rendered)
    /\ Run("toggleListView", toggleListView(rendered.isListViewOpen),
           rendered.isListViewOpen)

ClickZoomOut ==
    /\ ZoomOutRendered(rendered)
    /\ Run("zoomOut", zoomOutOnClick(isZoomedOutView(rendered)),
           isZoomedOutView(rendered))

\* The re-render the handlers' dispatches schedule.
Render ==
    /\ rendered # useSelect
    /\ rendered' = useSelect
    /\ handler' = "none"
    /\ calls' = << >>
    /\ UNCHANGED <<inserterOpen, listViewOpen, editorMode, deviceType, blockMode,
                   fixedToolbar, viewport, distractionFree, experimentFlag, trace>>

(***************************************************************************)
(* The rest of the application.  A change made outside the handlers is     *)
(* its own event: the pending re-render has run before it, and the         *)
(* component's store subscription re-renders it after.                     *)
(***************************************************************************)
Outside(changed) ==
    /\ rendered = useSelect
    /\ rendered' = changed
    /\ handler' = "none"
    /\ calls' = << >>
    /\ trace' = << >>

Resize ==
    \E v \in JsValues \ {viewport} :
        /\ Outside([useSelect EXCEPT !.isLargeViewport = v])
        /\ viewport' = v
        /\ UNCHANGED <<inserterOpen, listViewOpen, editorMode, deviceType, blockMode,
                       fixedToolbar, distractionFree, experimentFlag>>

SetFixedToolbar ==
    /\ Outside([useSelect EXCEPT !.hasFixedToolbar = ~fixedToolbar])
    /\ fixedToolbar' = ~fixedToolbar
    /\ UNCHANGED <<inserterOpen, listViewOpen, editorMode, deviceType, blockMode,
                   viewport, distractionFree, experimentFlag>>

SetDistractionFree ==
    /\ Outside([useSelect EXCEPT !.isDistractionFree = ~distractionFree])
    /\ distractionFree' = ~distractionFree
    /\ UNCHANGED <<inserterOpen, listViewOpen, editorMode, deviceType, blockMode,
                   fixedToolbar, viewport, experimentFlag>>

SwitchEditorMode ==
    \E m \in EditorModes \ {editorMode} :
        /\ Outside([useSelect EXCEPT !.isVisualMode = (m = "visual")])
        /\ editorMode' = m
        /\ UNCHANGED <<inserterOpen, listViewOpen, deviceType, blockMode,
                       fixedToolbar, viewport, distractionFree, experimentFlag>>

SetDeviceType ==
    \E d \in DeviceTypes \ {deviceType} :
        /\ Outside(useSelect)
        /\ deviceType' = d
        /\ UNCHANGED <<inserterOpen, listViewOpen, editorMode, blockMode,
                       fixedToolbar, viewport, distractionFree, experimentFlag>>

SetBlockEditorMode ==
    \E m \in BlockEditorModes \ {blockMode} :
        /\ Outside([useSelect EXCEPT !.blockEditorMode = m])
        /\ blockMode' = m
        /\ UNCHANGED <<inserterOpen, listViewOpen, editorMode, deviceType,
                       fixedToolbar, viewport, distractionFree, experimentFlag>>

Init ==
    /\ inserterOpen = FALSE
    /\ listViewOpen = FALSE
    /\ editorMode = "visual"
    /\ deviceType = "Desktop"
    /\ blockMode = "edit"
    /\ fixedToolbar = FALSE
    /\ viewport \in JsValues
    /\ distractionFree \in BOOLEAN
    /\ experimentFlag \in JsValues
    /\ rendered = useSelect
    /\ handler = "none"
    /\ calls = << >>
    /\ trace = << >>

Next ==
    \/ ClickInserter
    \/ ClickListView
    \/ ClickZoomOut
    \/ Render
    \/ Resize
    \/ SetFixedToolbar
    \/ SetDistractionFree
    \/ SwitchEditorMode
    \/ SetDeviceType
    \/ SetBlockEditorMode

Spec == Init /\ [][Next]_vars

TypeOK ==
    /\ inserterOpen \in BOOLEAN
    /\ listViewOpen \in BOOLEAN
    /\ editorMode \in EditorModes
    /\ deviceType \in DeviceTypes
    /\ blockMode \in BlockEditorModes
    /\ fixedToolbar \in BOOLEAN
    /\ viewport \in JsValues
    /\ distractionFree \in BOOLEAN
    /\ experimentFlag \in JsValues
    /\ handler \in {"none", "toggleInserter", "toggleListView", "zoomOut"}
    /\ Len(calls) <= 2
    /\ Len(trace) <= MaxTrace

(***************************************************************************)
(* Properties.                                                             *)
(***************************************************************************)
Last == trace[Len(trace)]

Positions(cs, a) == { i \in DOMAIN cs : cs[i].action = a }

Dispatches(cs) == { i \in DOMAIN cs : cs[i].action # "focus" }

\* The store as invocation i of the history left it.
After(i) == IF i = Len(trace) THEN Store ELSE trace[i + 1].before

Fresh(i) ==
    trace[i].captured =
        CASE trace[i].handler = "toggleInserter" -> trace[i].before.inserterOpen
          [] trace[i].handler = "toggleListView" -> trace[i].before.listViewOpen
          [] OTHER -> (trace[i].before.blockMode = "zoom-out")

Twice(h) ==
    { i \in 1..(Len(trace) - 1) : trace[i].handler = h /\ trace[i + 1].handler = h }

\* C1: toggleInserter run with the rendered isInserterOpen false dispatches
\* setIsInserterOpened(true) and moves no focus; run with it true, it moves
\* the focus exactly once, onto the inserter button, and then dispatches
\* setIsInserterOpened(false), the focus move strictly before the dispatch.
C1_ToggleInserterCalls ==
    handler = "toggleInserter" =>
        IF Last.captured
        THEN /\ Cardinality(Positions(calls, "focus")) = 1
             /\ \A i \in Positions(calls, "focus") : calls[i].arg = "inserterButton"
             /\ Cardinality(Dispatches(calls)) = 1
             /\ \A j \in Dispatches(calls) :
                    /\ calls[j] = Call("setIsInserterOpened", "false")
                    /\ \A i \in Positions(calls, "focus") : i < j
             /\ ~inserterOpen
        ELSE /\ Positions(calls, "focus") = {}
             /\ Cardinality(Dispatches(calls)) = 1
             /\ \A j \in Dispatches(calls) : calls[j] = Call("setIsInserterOpened", "true")
             /\ inserterOpen

C1_Witness ==
    /\ handler = "toggleInserter"
    /\ Last.captured
    /\ Last.before.inserterOpen
    /\ ~inserterOpen

\* C2: a click on the zoom-out toggle, whatever the blockEditorMode the
\* component holds, first dispatches setPreviewDeviceType('Desktop') and
\* then __unstableSetEditorMode: 'edit' when that mode is 'zoom-out',
\* 'zoom-out' for any other; afterwards the device type is 'Desktop'
\* whatever it was.
C2_ZoomOutClick ==
    handler = "zoomOut" =>
        /\ Len(calls) = 2
        /\ calls[1] = Call("setPreviewDeviceType", "Desktop")
        /\ calls[2] = Call("__unstableSetEditorMode",
                           IF rendered.blockEditorMode = "zoom-out" THEN "edit" ELSE "zoom-out")
        /\ deviceType = "Desktop"
        /\ blockMode = IF rendered.blockEditorMode = "zoom-out" THEN "edit" ELSE "zoom-out"

C2_Witness ==
    /\ handler = "zoomOut"
    /\ rendered.blockEditorMode = "zoom-out"
    /\ Last.before.deviceType = "Mobile"
    /\ deviceType = "Desktop"
    /\ blockMode = "edit"

\* C3 as stated: two successive runs of toggleInserter put the store's
\* inserter-open value back to what it was, whether or not the component
\* re-rendered in between.
C3_TwiceRestoresAlways ==
    \A i \in Twice("toggleInserter") :
        After(i + 1).inserterOpen = trace[i].before.inserterOpen

\* C3: two successive runs of toggleInserter, each with the captured
\* isInserterOpen equal to the store's value at that moment (the component
\* re-rendered after the last write), put the store's inserter-open value
\* back to what it was.
C3_TwiceRestoresWhenRendered ==
    \A i \in Twice("toggleInserter") :
        Fresh(i) /\ Fresh(i + 1) =>
            /\ After(i).inserterOpen = ~trace[i].before.inserterOpen
            /\ After(i + 1).inserterOpen = trace[i].before.inserterOpen

C3_Witness ==
    /\ handler = "toggleInserter"
    /\ Len(trace) = 2
    /\ 1 \in Twice("toggleInserter")
    /\ Fresh(1) /\ Fresh(2)
    /\ trace[1].before.inserterOpen
    /\ inserterOpen

\* C4 as stated: toggleListView moves no focus and two successive runs of
\* it leave list-view-open as it was, whether or not the component
\* re-rendered in between.
C4_FlipTwiceAlways ==
    /\ handler = "toggleListView" => Positions(calls, "focus") = {}
    /\ \A i \in Twice("toggleListView") :
           After(i + 1).listViewOpen = trace[i].before.listViewOpen

\* C4: toggleListView moves no focus and sets list-view-open to the negation
\* of the isListViewOpen it captured; two successive runs, each with the
\* captured value equal to the store's value at that moment, leave
\* list-view-open as it was.
C4_FlipTwiceWhenRendered ==
    /\ handler = "toggleListView" =>
           /\ Positions(calls, "focus") = {}
           /\ listViewOpen = ~Last.captured
    /\ \A i \in Twice("toggleListView") :
           Fresh(i) /\ Fresh(i + 1) =>
               After(i + 1).listViewOpen = trace[i].before.listViewOpen

C4_Witness ==
    /\ handler = "toggleListView"
    /\ Len(trace) = 2
    /\ 1 \in Twice("toggleListView")
    /\ Fresh(1) /\ Fresh(2)
    /\ ~trace[1].before.listViewOpen
    /\ ~listViewOpen

\* C5: with isDistractionFree true, the inserter button, the list-view
\* toggle and the zoom-out toggle are all absent, whatever the other flags.
C5_DistractionFreeHides ==
    rendered.isDistractionFree =>
        /\ ~InserterRendered(rendered)
        /\ ~ListViewRendered(rendered)
        /\ ~ZoomOutRendered(rendered)

C5_Witness ==
    /\ rendered.isDistractionFree
    /\ Truthy(rendered.isLargeViewport)
    /\ Truthy(rendered.experimentFlag)
    /\ rendered.isVisualMode
    /\ ~rendered.hasFixedToolbar
    /\ rendered.isInserterOpen
    /\ rendered.isListViewOpen

\* C6: with a viewport that is not large (false, or undefined), the tool
\* selector, undo, redo, the list-view toggle and the zoom-out toggle are
\* all absent, whatever the other flags.
C6_SmallViewportHides ==
    rendered.isLargeViewport \in {"false", "undefined"} =>
        /\ ~ToolSelectorRendered(rendered)
        /\ ~UndoRendered(rendered)
        /\ ~RedoRendered(rendered)
        /\ ~ListViewRendered(rendered)
        /\ ~ZoomOutRendered(rendered)

C6_Witness ==
    /\ rendered.isLargeViewport = "undefined"
    /\ InserterRendered(rendered)
    /\ Truthy(rendered.experimentFlag)
    /\ rendered.isVisualMode
    /\ ~rendered.hasFixedToolbar

\* C7: a rendered list-view toggle is disabled exactly when isVisualMode is
\* false or the blockEditorMode is 'zoom-out', so it is only ever clicked
\* in the visual mode outside the zoomed-out view; its expanded flag is
\* isListViewOpen.
C7_ListViewDisabled ==
    /\ ListViewRendered(rendered) =>
           /\ ListViewDisabled(rendered) <=>
                  (rendered.isVisualMode = FALSE \/ rendered.blockEditorMode = "zoom-out")
           /\ ListViewExpanded(rendered) = rendered.isListViewOpen
    /\ handler = "toggleListView" =>
           rendered.isVisualMode /\ rendered.blockEditorMode # "zoom-out"

C7_Witness ==
    /\ ListViewRendered(rendered)
    /\ rendered.isVisualMode
    /\ rendered.blockEditorMode = "zoom-out"
    /\ ListViewDisabled(rendered)
    /\ rendered.isListViewOpen

\* C8: the zoom-out toggle is rendered only with a large viewport, the
\* experiment flag enabled, distraction-free off and hasFixedToolbar false;
\* an undefined flag counts as false.
C8_ZoomOutRenderedOnlyWhen ==
    ZoomOutRendered(rendered) =>
        /\ rendered.isLargeViewport = "true"
        /\ rendered.experimentFlag = "true"
        /\ ~rendered.isDistractionFree
        /\ ~rendered.hasFixedToolbar

C8_Witness ==
    /\ rendered.experimentFlag = "undefined"
    /\ rendered.isLargeViewport = "true"
    /\ ~rendered.isDistractionFree
    /\ ~rendered.hasFixedToolbar
    /\ rendered.isVisualMode
    /\ ~ZoomOutRendered(rendered)

OnlyCalls(cs, allowed) == \A i \in DOMAIN cs : cs[i].action \in allowed

\* C10: each handler writes only its own part of the store, through its
\* dispatches: toggleInserter leaves list-view-open, the block-editor mode
\* and the device type alone; toggleListView leaves inserter-open, the
\* block-editor mode and the device type alone and moves no focus; the
\* zoom-out click leaves inserter-open and list-view-open alone; none of
\* them changes the site editor mode, the fixed-toolbar preference or the
\* viewport signal.
C10_Step ==
    /\ handler' = "toggleInserter" =>
           /\ OnlyCalls(calls', {"focus", "setIsInserterOpened"})
           /\ UNCHANGED <<listViewOpen, blockMode, deviceType>>
    /\ handler' = "toggleListView" =>
           /\ OnlyCalls(calls', {"setIsListViewOpened"})
           /\ UNCHANGED <<inserterOpen, blockMode, deviceType>>
    /\ handler' = "zoomOut" =>
           /\ OnlyCalls(calls', {"setPreviewDeviceType", "__unstableSetEditorMode"})
           /\ UNCHANGED <<inserterOpen, listViewOpen>>
    /\ handler' # "none" =>
           /\ UNCHANGED <<editorMode, fixedToolbar, viewport>>
           /\ Store' = dispatchAll(Store, calls')

C10_Frame == [][C10_Step]_vars

C10_Witness ==
    /\ handler = "zoomOut"
    /\ inserterOpen
    /\ listViewOpen
    /\ Last.before.deviceType = "Tablet"
    /\ Last.before.blockMode = "navigation"
====
